---- MODULE Spec2Model ----
(***************************************************************************)
(* A model of friends-of-js/web-storage: the WebStorage facade             *)
(* (src/src/web-storage.ts) over a MemoryStorage backing store             *)
(* (src/src/memory-storage.ts).                                            *)
(*                                                                         *)
(* JavaScript strings that the code inspects character by character        *)
(* (storage keys, namespaces) are sequences of one-character strings.      *)
(* Stored texts and JavaScript values, which the code only passes to       *)
(* JSON.stringify / JSON.parse, are atoms (TLA+ strings).                  *)
(***************************************************************************)
EXTENDS Integers, Sequences, FiniteSets

VARIABLES
    internalItems,      \* MemoryStorage.internalItems: the Map, in insertion order
    currentNamespace,   \* WebStorage.currentNamespace, per facade
    own,                \* own properties assigned over declared members, per facade (0: the store)
    last,               \* the operation that produced this state, with its result
    iteration           \* the generator object of the iteration in progress

vars == <<internalItems, currentNamespace, own, last, iteration>>

----------------------------------------------------------------------------
(* Bounds and input sets *)

\* The largest number of entries the backing store holds in the model.
MaxStore == 2

\* null and undefined where the code handles a string | null | undefined.
Null == <<"<null>">>
Undefined == <<"<undefined>">>

\* The facades, each built by new WebStorage(storage, NamespaceArg[f]) over the
\* one shared MemoryStorage.
Facades == {1, 2, 3}
NamespaceArg == <<Undefined, <<"a">>, <<"b">>>>

\* Logical keys the callers pass: "", "k" and "a/k".
Keys == {<<>>, <<"k">>, <<"a", "/", "k">>}

\* Physical keys written directly to the backing store: "\n/\n" and "c/k".
RawKeys == {<<"\n", "/", "\n">>, <<"c", "/", "k">>}

\* JavaScript values the callers store: the number 1 and NaN.
Values == {"num:1", "NaN"}

\* Texts written directly to the backing store.
RawTexts == {"1"}

\* Default values passed to get(key, defaultValue).
Defaults == {"undefined", "num:1", "null"}

----------------------------------------------------------------------------
(* JavaScript primitives the code relies on *)

\* null and undefined of a stored text / a getItem result.
NullText == "<null>"
UndefinedText == "<undefined>"

\* ToString of a string | null | undefined (template literals, RegExp.test,
\* property keys).
ToString(x) ==
    IF x = Null THEN <<"n", "u", "l", "l">>
    ELSE IF x = Undefined THEN <<"u", "n", "d", "e", "f", "i", "n", "e", "d">>
    ELSE x

\* The characters "." does not match in a JavaScript regular expression.
LineTerminators == {"\n", "\r"}

\* String.prototype.startsWith
StartsWith(s, prefix) ==
    /\ Len(s) >= Len(prefix)
    /\ SubSeq(s, 1, Len(prefix)) = prefix

\* String.prototype.substr(from), indices from 0
Substr(s, from) == SubSeq(s, from + 1, Len(s))

\* new RegExp('.+\\/.+').test(key): an unanchored match of one or more
\* non-line-terminator characters, a slash, one or more such characters.
RegExpTest(key) ==
    LET s == ToString(key) IN
    \E i \in 2..(Len(s) - 1) :
        /\ s[i] = "/"
        /\ s[i - 1] \notin LineTerminators
        /\ s[i + 1] \notin LineTerminators

\* JSON.stringify on the modelled values; undefined has no JSON text and
\* stringify returns undefined.
JSON_stringify(value) ==
    CASE value = "num:1" -> "1"
      [] value = "NaN" -> "null"
      [] value = "null" -> "null"
      [] value = "str:x" -> "\"x\""
      [] value = "undefined" -> UndefinedText
      [] OTHER -> "<TypeError>"

\* JSON.parse on a stored text; a null argument is converted to "null",
\* anything that is not JSON text is a SyntaxError.
JSON_parse(text) ==
    CASE text = "1" -> "num:1"
      [] text = "null" -> "null"
      [] text = NullText -> "null"
      [] text = "\"x\"" -> "str:x"
      [] OTHER -> "SyntaxError"

----------------------------------------------------------------------------
(* MemoryStorage: src/src/memory-storage.ts *)

\* Array.from(this.internalItems.keys())
MapKeys(items) == [i \in 1..Len(items) |-> items[i].key]

\* Map.prototype.has
MapHas(items, key) == \E i \in 1..Len(items) : items[i].key = key

\* Map.prototype.set: an existing key keeps its position, a new one is appended
MapSet(items, key, value) ==
    IF MapHas(items, key)
    THEN [i \in 1..Len(items) |->
            IF items[i].key = key THEN [key |-> key, value |-> value] ELSE items[i]]
    ELSE Append(items, [key |-> key, value |-> value])

\* Map.prototype.delete
MapDelete(items, key) == SelectSeq(items, LAMBDA e : e.key # key)

\* get length
MemoryStorage_length(items) == Len(items)

\* hasItem(key)
MemoryStorage_hasItem(items, key) == MapHas(items, key)

\* getItem(key)
MemoryStorage_getItem(items, key) ==
    IF MapHas(items, key)
    THEN (CHOOSE e \in {items[i] : i \in 1..Len(items)} : e.key = key).value
    ELSE NullText

\* key(index): Array.from(keys)[index] || null; an index out of range gives
\* undefined and the empty string is falsy, both become null.
MemoryStorage_key(items, index) ==
    IF index + 1 \in 1..Len(items) /\ MapKeys(items)[index + 1] # <<>>
    THEN MapKeys(items)[index + 1]
    ELSE Null

\* removeItem(key)
MemoryStorage_removeItem(items, key) == MapDelete(items, key)

\* A setItem that keeps the value of a key the store already has.
MemoryStorage_setItem_KeepFirst(items, key, value) ==
    IF MapHas(items, key) THEN items ELSE Append(items, [key |-> key, value |-> value])

\* setItem(key, value)
MemoryStorage_setItem(items, key, value) == MapSet(items, key, value)

\* clear()
MemoryStorage_clear(items) == <<>>

----------------------------------------------------------------------------
(* WebStorage: src/src/web-storage.ts *)

\* constructor: this.currentNamespace = namespace || null
Constructor(namespace) ==
    IF namespace = Undefined \/ namespace = <<>> THEN Null ELSE namespace

\* The names for which (key in target) holds on a fresh facade: the two
\* fields, the members of the class and those inherited from Object.prototype.
DeclaredMembers ==
    { <<"s","t","o","r","a","g","e">>,
      <<"c","u","r","r","e","n","t","N","a","m","e","s","p","a","c","e">>,
      <<"c","o","n","s","t","r","u","c","t","o","r">>,
      <<"h","a","s","N","a","m","e","s","p","a","c","e">>,
      <<"n","a","m","e","s","p","a","c","e">>,
      <<"l","e","n","g","t","h">>,
      <<"g","e","t">>, <<"k","e","y">>, <<"k","e","y","s">>, <<"h","a","s">>,
      <<"s","e","t">>, <<"d","e","l","e","t","e">>, <<"c","l","e","a","r">>,
      <<"k","e","y","W","i","t","h","N","a","m","e","s","p","a","c","e">>,
      <<"g","e","t","S","t","o","r","a","g","e","K","e","y","s">>,
      <<"c","r","e","a","t","e","P","r","o","x","y">>,
      <<"t","o","S","t","r","i","n","g">>, <<"v","a","l","u","e","O","f">>,
      <<"h","a","s","O","w","n","P","r","o","p","e","r","t","y">> }

\* (key in target): a declared member, or an own property assigned since.
InTarget(f, key) ==
    \/ ToString(key) \in DeclaredMembers
    \/ \E p \in own[f] : p.name = ToString(key)

\* get namespace
WebStorage_namespace(f) == currentNamespace[f]

\* hasNamespace()
WebStorage_hasNamespace(f) == WebStorage_namespace(f) # Null

\* keyWithNamespace(key): `${this.namespace}/${key}` or key itself
WebStorage_keyWithNamespace(f, key) ==
    IF WebStorage_hasNamespace(f)
    THEN WebStorage_namespace(f) \o <<"/">> \o ToString(key)
    ELSE key

\* The loop of getStorageKeys() from `index` on, `keys` being the keys pushed
\* so far.  storage.key(index) is null for the empty key of a MemoryStorage,
\* and null.startsWith is a TypeError.
RECURSIVE StorageKeysFrom(_, _, _, _)
StorageKeysFrom(items, namespace, index, keys) ==
    IF ~(index < MemoryStorage_length(items))
    THEN [fault |-> FALSE, keys |-> keys]
    ELSE
      LET key == MemoryStorage_key(items, index) IN
      IF namespace # Null
      THEN
        IF key = Null
        THEN [fault |-> TRUE, keys |-> <<>>]
        ELSE IF StartsWith(key, namespace \o <<"/">>)
        THEN StorageKeysFrom(items, namespace, index + 1,
                             Append(keys, Substr(key, Len(namespace) + 1)))
        ELSE StorageKeysFrom(items, namespace, index + 1, keys)
      ELSE
        IF ~RegExpTest(key)
        THEN StorageKeysFrom(items, namespace, index + 1, Append(keys, key))
        ELSE StorageKeysFrom(items, namespace, index + 1, keys)

\* getStorageKeys(): the keys, or the fault the scan raised
WebStorage_getStorageKeys(f) ==
    StorageKeysFrom(internalItems, WebStorage_namespace(f), 0, <<>>)

\* keys()
WebStorage_keys(f) == WebStorage_getStorageKeys(f)

\* A length that reports the backing store's raw length instead.
WebStorage_length_Raw(f) == MemoryStorage_length(internalItems)

\* get length: getStorageKeys().length, -1 standing for the fault
WebStorage_length(f) ==
    IF WebStorage_getStorageKeys(f).fault
    THEN -1
    ELSE Len(WebStorage_getStorageKeys(f).keys)

\* has(key)
WebStorage_has(f, key) ==
    MemoryStorage_getItem(internalItems, WebStorage_keyWithNamespace(f, key)) # NullText

\* A get that looks the key up without the namespace prefix.
WebStorage_get_NoNamespace(f, key, defaultValue) ==
    IF MemoryStorage_getItem(internalItems, key) # NullText
    THEN JSON_parse(MemoryStorage_getItem(internalItems, key))
    ELSE defaultValue

\* A get that prefers a given default to the stored value.
WebStorage_get_PreferDefault(f, key, defaultValue) ==
    IF /\ MemoryStorage_getItem(internalItems, WebStorage_keyWithNamespace(f, key)) # NullText
       /\ defaultValue = "undefined"
    THEN JSON_parse(MemoryStorage_getItem(internalItems, WebStorage_keyWithNamespace(f, key)))
    ELSE defaultValue

\* get(key, defaultValue)
WebStorage_get(f, key, defaultValue) ==
    IF MemoryStorage_getItem(internalItems, WebStorage_keyWithNamespace(f, key)) # NullText
    THEN JSON_parse(MemoryStorage_getItem(internalItems, WebStorage_keyWithNamespace(f, key)))
    ELSE defaultValue

\* The for loop of clear(): removeItem(keyWithNamespace(key)) for each key
RECURSIVE ClearLoop(_, _, _)
ClearLoop(items, f, keys) ==
    IF keys = <<>>
    THEN items
    ELSE ClearLoop(MemoryStorage_removeItem(items, WebStorage_keyWithNamespace(f, Head(keys))),
                   f, Tail(keys))

----------------------------------------------------------------------------
(* The state machine: one action per operation of a facade or of the store *)

\* The record kept in `last`: the operation, the facade (0: the store
\* itself), its key and value arguments, what it returned, and whether the
\* physical key it addressed was in the store before.
Op(op, f, key, value, ret, had) ==
    [op |-> op, f |-> f, key |-> key, value |-> value, ret |-> ret, had |-> had]

\* The model keeps at most MaxStore entries: a write of a new key needs room.
HasRoom(key) ==
    MapHas(internalItems, key) \/ Len(internalItems) < MaxStore

\* Values for which (target[key] = data) is falsy.
Falsy == {"NaN", "null", "undefined", "false", "num:0", "str:"}

\* Members with a getter and no setter: assigning them in strict code throws.
GetterOnly == { <<"n","a","m","e","s","p","a","c","e">>, <<"l","e","n","g","t","h">> }

\* The namespace a value assigned to the field currentNamespace stands for.
NamespaceFromValue(data) ==
    CASE data = "null" -> Null
      [] data = "undefined" -> Undefined
      [] data = "str:x" -> <<"x">>
      [] data = "num:1" -> <<"1">>
      [] OTHER -> <<"N", "a", "N">>

\* target[key] = data on an own property: the earlier value is replaced.
AssignOwn(props, name, data) ==
    {p \in props : p.name # name} \cup {[name |-> name, data |-> data]}

\* No generator object exists yet.
NoIteration ==
    [f |-> 0, state |-> "none", keys |-> <<>>, visible |-> <<>>, pos |-> 0,
     produced |-> <<>>]

Init ==
    /\ internalItems = <<>>
    /\ currentNamespace = [f \in Facades |-> Constructor(NamespaceArg[f])]
    /\ own = [f \in Facades \cup {0} |-> {}]
    /\ last = Op("new", 0, <<>>, "undefined", "void", FALSE)
    /\ iteration = NoIteration

\* await facade.set(key, value)
Set(f, key, value) ==
    LET physical == WebStorage_keyWithNamespace(f, key)
        text == JSON_stringify(value)
        had == MapHas(internalItems, physical)
    IN
    /\ HasRoom(physical)
    /\ IF text = "<TypeError>"
       THEN /\ internalItems' = internalItems
            /\ last' = Op("set", f, key, value, "false", had)
       ELSE /\ internalItems' = MemoryStorage_setItem(internalItems, physical, text)
            /\ last' = Op("set", f, key, value, "true", had)
    /\ UNCHANGED <<currentNamespace, own, iteration>>

\* A delete that removes the key without the namespace prefix.
Delete_NoNamespace(f, key) ==
    LET physical == WebStorage_keyWithNamespace(f, key) IN
    /\ internalItems' = MemoryStorage_removeItem(internalItems, key)
    /\ last' = Op("delete", f, key, "undefined", "true", MapHas(internalItems, physical))
    /\ UNCHANGED <<currentNamespace, own, iteration>>

\* await facade.delete(key)
Delete(f, key) ==
    LET physical == WebStorage_keyWithNamespace(f, key) IN
    /\ internalItems' = MemoryStorage_removeItem(internalItems, physical)
    /\ last' = Op("delete", f, key, "undefined", "true", MapHas(internalItems, physical))
    /\ UNCHANGED <<currentNamespace, own, iteration>>

\* await facade.clear()
Clear(f) ==
    LET scan == WebStorage_getStorageKeys(f) IN
    /\ IF scan.fault
       THEN /\ internalItems' = internalItems
            /\ last' = Op("clear", f, <<>>, "undefined", "TypeError", FALSE)
       ELSE /\ internalItems' = ClearLoop(internalItems, f, scan.keys)
            /\ last' = Op("clear", f, <<>>, "undefined", "void", scan.keys # <<>>)
    /\ UNCHANGED <<currentNamespace, own, iteration>>

\* facade[key] = data: the set trap of createProxy
AttrSet(f, key, data) ==
    LET physical == WebStorage_keyWithNamespace(f, key)
        text == JSON_stringify(data)
        had == MapHas(internalItems, physical)
    IN
    IF ~InTarget(f, key)
    THEN
      /\ HasRoom(physical)
      /\ IF text = "<TypeError>"
         THEN /\ internalItems' = internalItems
              /\ last' = Op("attrset", f, key, data, "TypeError", had)
         ELSE /\ internalItems' = MemoryStorage_setItem(internalItems, physical, text)
              /\ last' = Op("attrset", f, key, data, "true", had)
      /\ UNCHANGED <<currentNamespace, own, iteration>>
    ELSE
      /\ internalItems' = internalItems
      /\ IF key \in GetterOnly
         THEN /\ UNCHANGED <<currentNamespace, own, iteration>>
              /\ last' = Op("attrset", f, key, data, "TypeError", had)
         ELSE /\ UNCHANGED iteration
              /\ own' = [own EXCEPT ![f] = AssignOwn(own[f], key, data)]
              /\ currentNamespace' =
                   IF key = <<"c","u","r","r","e","n","t","N","a","m","e","s","p","a","c","e">>
                   THEN [currentNamespace EXCEPT ![f] = NamespaceFromValue(data)]
                   ELSE currentNamespace
              /\ last' = Op("attrset", f, key, data,
                            IF data \in Falsy THEN "TypeError" ELSE "true", had)

\* delete facade[key]: the deleteProperty trap of createProxy
AttrDelete(f, key) ==
    LET physical == WebStorage_keyWithNamespace(f, key) IN
    /\ internalItems' =
         IF ~InTarget(f, key)
         THEN MemoryStorage_removeItem(internalItems, physical)
         ELSE internalItems
    /\ last' = Op("attrdelete", f, key, "undefined", "true", MapHas(internalItems, physical))
    /\ UNCHANGED <<currentNamespace, own, iteration>>

\* storage.setItem(key, text), directly on the backing store
RawSetItem(key, text) ==
    /\ HasRoom(key)
    /\ internalItems' = MemoryStorage_setItem(internalItems, key, text)
    /\ last' = Op("setItem", 0, key, text, "void", MapHas(internalItems, key))
    /\ UNCHANGED <<currentNamespace, own, iteration>>

\* storage.removeItem(key), directly on the backing store
RawRemoveItem(key) ==
    /\ internalItems' = MemoryStorage_removeItem(internalItems, key)
    /\ last' = Op("removeItem", 0, key, "undefined", "void", MapHas(internalItems, key))
    /\ UNCHANGED <<currentNamespace, own, iteration>>

\* storage.clear(), directly on the backing store
RawClear ==
    /\ internalItems' = MemoryStorage_clear(internalItems)
    /\ last' = Op("storage.clear", 0, <<>>, "undefined", "void", internalItems # <<>>)
    /\ UNCHANGED <<currentNamespace, own, iteration>>

Next ==
    \/ \E f \in Facades, key \in Keys, value \in Values : Set(f, key, value)
    \/ \E f \in Facades, key \in Keys : Delete(f, key)
    \/ \E f \in Facades : Clear(f)
    \/ \E f \in Facades, key \in Keys, data \in Values : AttrSet(f, key, data)
    \/ \E f \in Facades, key \in Keys : AttrDelete(f, key)
    \/ \E key \in RawKeys, text \in RawTexts : RawSetItem(key, text)
    \/ \E key \in RawKeys : RawRemoveItem(key)
    \/ RawClear

Spec == Init /\ [][Next]_vars

----------------------------------------------------------------------------
(* Properties *)

\* The last operation was issued through a facade.
FacadeOp == last.f \in Facades

\* The physical key the last facade operation addressed.
LastPhysical == WebStorage_keyWithNamespace(last.f, last.key)

\* A value that JSON text represents without loss.
Lossless(value) == JSON_parse(JSON_stringify(value)) = value

\* The filter of getStorageKeys() (lines 196 and 199) on a physical key.
InFilter(namespace, physical) ==
    IF namespace # Null
    THEN StartsWith(physical, namespace \o <<"/">>)
    ELSE ~RegExpTest(physical)

\* keys() of facade g returns without fault and lists the entry at `physical`.
ListedBy(g, physical) ==
    /\ ~WebStorage_keys(g).fault
    /\ \E index \in 0..(MemoryStorage_length(internalItems) - 1) :
          /\ MapKeys(internalItems)[index + 1] = physical
          /\ MemoryStorage_key(internalItems, index) = physical
          /\ InFilter(WebStorage_namespace(g), physical)

\* A physical key of the form x/y, both segments non-empty.
SlashShaped(physical) ==
    \E i \in 2..(Len(physical) - 1) : physical[i] = "/"

\* C1: if set(k, v) returns true and v serializes losslessly, then get(k),
\* with any default, returns v and has(k) is true, for every facade.
C1_SetThenGet ==
    (last.op = "set" /\ last.ret = "true" /\ Lossless(last.value)) =>
        /\ WebStorage_has(last.f, last.key)
        /\ \A d \in Defaults : WebStorage_get(last.f, last.key, d) = last.value

C1_Witness ==
    /\ last.op = "set" /\ last.ret = "true" /\ Lossless(last.value)
    /\ WebStorage_hasNamespace(last.f)
    /\ last.had
    /\ Len(internalItems) = 2

\* C2: after delete(k) returns, has(k) is false and get(k, d) returns d for
\* every default d, for every facade and key.
C2_DeleteThenAbsent ==
    last.op = "delete" =>
        /\ ~WebStorage_has(last.f, last.key)
        /\ \A d \in Defaults : WebStorage_get(last.f, last.key, d) = d

C2_Witness ==
    /\ last.op = "delete" /\ last.ret = "true" /\ last.had
    /\ WebStorage_hasNamespace(last.f)
    /\ Len(internalItems) = 1

\* C3: an entry written through one facade (set or attribute assignment) is
\* never listed by keys() of a facade whose namespace differs.
C3_KeysDisjoint ==
    (last.op \in {"set", "attrset"} /\ last.ret = "true") =>
        \A g \in Facades :
            WebStorage_namespace(g) # WebStorage_namespace(last.f) =>
                ~ListedBy(g, LastPhysical)

\* C4: clear() on a facade leaves untouched every physical key outside that
\* facade's namespace filter, and with them every entry written through a
\* facade with another namespace.
C4_ClearFrame ==
    [][last'.op = "clear" =>
          /\ \A i \in 1..Len(internalItems) :
                ~InFilter(WebStorage_namespace(last'.f), internalItems[i].key) =>
                    MemoryStorage_getItem(internalItems', internalItems[i].key)
                        = internalItems[i].value
          /\ (/\ last.op \in {"set", "attrset"}
              /\ last.ret = "true"
              /\ WebStorage_namespace(last.f) # WebStorage_namespace(last'.f)) =>
                    MemoryStorage_getItem(internalItems', LastPhysical)
                        = MemoryStorage_getItem(internalItems, LastPhysical)
      ]_vars

\* C5: no physical key is listed both by keys() of a null-namespace facade
\* and by keys() of a named facade.
C5_NullAndNamedDisjoint ==
    \A f \in Facades, g \in Facades :
        (~WebStorage_hasNamespace(f) /\ WebStorage_hasNamespace(g)) =>
            \A i \in 1..Len(internalItems) :
                ~(ListedBy(f, internalItems[i].key) /\ ListedBy(g, internalItems[i].key))

\* C6: a physical key x/y with both segments non-empty is never in keys() of
\* a null-namespace facade and never counted in its length.
C6_NullExclusion ==
    \A f \in Facades :
        ~WebStorage_hasNamespace(f) =>
            /\ \A i \in 1..Len(internalItems) :
                  SlashShaped(internalItems[i].key) =>
                      \A j \in 1..Len(WebStorage_keys(f).keys) :
                          WebStorage_keys(f).keys[j] # internalItems[i].key
            /\ WebStorage_length(f) <=
                  Cardinality({i \in 1..Len(internalItems) :
                                  ~SlashShaped(internalItems[i].key)})

\* The remainders after namespace + "/" of the physical keys that start with
\* it, in the order of the backing store.
NamedRemainders(namespace) ==
    LET prefix == namespace \o <<"/">>
        mine == SelectSeq(MapKeys(internalItems), LAMBDA k : StartsWith(k, prefix))
    IN [i \in 1..Len(mine) |-> SubSeq(mine[i], Len(prefix) + 1, Len(mine[i]))]

\* C7: for a facade with a named namespace, in every state, keys() is the
\* list of remainders of the physical keys with its prefix, in store order,
\* and length is their number.
C7_NamedKeys ==
    \A f \in Facades :
        WebStorage_hasNamespace(f) =>
            /\ WebStorage_keys(f) =
                  [fault |-> FALSE, keys |-> NamedRemainders(WebStorage_namespace(f))]
            /\ WebStorage_length(f) = Len(NamedRemainders(WebStorage_namespace(f)))

\* C8: for every facade, in every state, length is the number of elements of
\* keys() (and length fails exactly when keys() fails).
C8_LengthIsKeysLength ==
    \A f \in Facades :
        IF WebStorage_keys(f).fault
        THEN WebStorage_length(f) = -1
        ELSE WebStorage_length(f) = Len(WebStorage_keys(f).keys)

C8_Witness ==
    /\ last.op = "setItem"
    /\ Len(internalItems) = 2
    /\ \E f \in Facades : WebStorage_length(f) = 1
    /\ \E f \in Facades : WebStorage_length(f) = 0

\* C9: after clear() completes on a facade, its keys() is the empty list and
\* its length is 0.
C9_ClearEmpties ==
    (last.op = "clear" /\ last.ret = "void") =>
        /\ WebStorage_keys(last.f) = [fault |-> FALSE, keys |-> <<>>]
        /\ WebStorage_length(last.f) = 0

\* C10: set, delete, clear, attribute assignment and attribute deletion of a
\* facade change only physical keys inside that facade's namespace filter.
C10_OwnFilterOnly ==
    [][last'.op \in {"set", "delete", "clear", "attrset", "attrdelete"} =>
          \A physical \in {internalItems[i].key : i \in 1..Len(internalItems)}
                          \cup {internalItems'[i].key : i \in 1..Len(internalItems')} :
              ~InFilter(WebStorage_namespace(last'.f), physical) =>
                  MemoryStorage_getItem(internalItems', physical)
                      = MemoryStorage_getItem(internalItems, physical)
      ]_vars

\* C11: a write through a facade (set or attribute assignment) of a key the
\* facade does not have makes the key appear in keys() and raises length by
\* exactly one; a write of a key it has leaves length unchanged.
C11_WriteAddsOneKey ==
    [][\A f \in Facades, key \in Keys :
          (/\ last'.op \in {"set", "attrset"}
           /\ last'.f = f
           /\ last'.key = key
           /\ last'.ret = "true") =>
             IF ~WebStorage_has(f, key)
             THEN /\ \E j \in 1..Len(WebStorage_keys(f).keys') :
                        WebStorage_keys(f).keys'[j] = key
                  /\ WebStorage_length(f)' = WebStorage_length(f) + 1
             ELSE WebStorage_length(f)' = WebStorage_length(f)
      ]_vars

----------------------------------------------------------------------------
(* Faults: a backing store with a quota, values JSON.stringify cannot      *)
(* represent, and stored texts JSON.parse rejects                          *)

\* Facades, keys, values and defaults of the callers in this specification:
\* the value undefined and a cyclic object besides the number 1.
FaultFacades == {1, 2}
FaultKeys == {<<>>, <<"k">>}
FaultValues == {"num:1", "undefined", "cyclic"}
FaultDefaults == {"undefined", "num:1"}

\* Physical keys and the text written directly to the backing store: a text
\* that is not JSON.
CorruptKeys == {<<"k">>, <<"a", "/", "k">>}
CorruptTexts == {"x"}

\* A backing store with a quota of MaxStore entries: setItem of a new key on
\* a full store throws.
QuotaExceeded(key) == ~HasRoom(key)

\* A set that lets the fault of a rejected write reach the caller.
SetBounded_Throws(f, key, value) ==
    LET physical == WebStorage_keyWithNamespace(f, key) IN
    IF ~QuotaExceeded(physical)
    THEN Set(f, key, value)
    ELSE /\ UNCHANGED <<internalItems, currentNamespace, own, iteration>>
         /\ last' = Op("set", f, key, value, "QuotaExceededError", FALSE)

\* await facade.set(key, value) on the store with a quota: whatever the try
\* block throws, the catch block returns false
SetBounded(f, key, value) ==
    LET physical == WebStorage_keyWithNamespace(f, key) IN
    IF ~QuotaExceeded(physical)
    THEN Set(f, key, value)
    ELSE /\ UNCHANGED <<internalItems, currentNamespace, own, iteration>>
         /\ last' = Op("set", f, key, value, "false", FALSE)

\* facade[key] = data on the store with a quota: the set trap has no catch
AttrSetBounded(f, key, data) ==
    LET physical == WebStorage_keyWithNamespace(f, key) IN
    IF InTarget(f, key) \/ ~QuotaExceeded(physical)
    THEN AttrSet(f, key, data)
    ELSE /\ UNCHANGED <<internalItems, currentNamespace, own, iteration>>
         /\ last' = Op("attrset", f, key, data,
                       IF JSON_stringify(data) = "<TypeError>"
                       THEN "TypeError" ELSE "QuotaExceededError", FALSE)

\* await facade.get(key, defaultValue)
Get(f, key, defaultValue) ==
    /\ UNCHANGED <<internalItems, currentNamespace, own, iteration>>
    /\ last' = Op("get", f, key, defaultValue, WebStorage_get(f, key, defaultValue),
                  MapHas(internalItems, WebStorage_keyWithNamespace(f, key)))

NextFaults ==
    \/ \E f \in FaultFacades, key \in FaultKeys, value \in FaultValues :
          SetBounded(f, key, value)
    \/ \E f \in FaultFacades, key \in FaultKeys, data \in FaultValues :
          AttrSetBounded(f, key, data)
    \/ \E f \in FaultFacades, key \in FaultKeys, defaultValue \in FaultDefaults :
          Get(f, key, defaultValue)
    \/ \E f \in FaultFacades, key \in FaultKeys : Delete(f, key)
    \/ \E key \in CorruptKeys, text \in CorruptTexts : RawSetItem(key, text)

SpecFaults == Init /\ [][NextFaults]_vars

\* C12: get(k, d) leaves the backing store unchanged; with no entry at the
\* encoded key it returns d (undefined when none is given), with an entry it
\* returns what deserializing the stored text gives, whatever d is.
C12_GetDefaultOrStored ==
    [][\A f \in FaultFacades, key \in FaultKeys :
          (last'.op = "get" /\ last'.f = f /\ last'.key = key) =>
             /\ internalItems' = internalItems
             /\ LET text == MemoryStorage_getItem(internalItems,
                                                  WebStorage_keyWithNamespace(f, key))
                IN IF text = NullText
                   THEN last'.ret = last'.value
                   ELSE last'.ret = JSON_parse(text)
      ]_vars

\* get found an entry and returned its value, not the default it was given.
C12_Witness ==
    /\ last.op = "get"
    /\ last.had
    /\ last.value = "undefined"
    /\ last.ret = "num:1"

\* C13: set(k, v) returns true or false and raises nothing; it returns false
\* when the backing store rejects the write, and true exactly when the write
\* was accepted, the store then holding the serialized value at the encoded
\* key.
C13_SetReportsRejection ==
    last.op = "set" =>
       /\ last.ret \in {"true", "false"}
       /\ (/\ JSON_stringify(last.value) # "<TypeError>"
           /\ ~MapHas(internalItems, LastPhysical)) => last.ret = "false"
       /\ last.ret = "true" <=>
             /\ JSON_stringify(last.value) # "<TypeError>"
             /\ MemoryStorage_getItem(internalItems, LastPhysical) =
                   JSON_stringify(last.value)

\* The full store rejected the write of a new key and set returned false.
C13_Witness ==
    /\ last.op = "set"
    /\ last.value = "num:1"
    /\ last.ret = "false"
    /\ ~MapHas(internalItems, LastPhysical)
    /\ Len(internalItems) = MaxStore

\* C14: when set(k, v) fails because v cannot be serialized, the fault
\* reaches the caller: set does not return false.
C14_OtherFaultsPropagate ==
    (last.op = "set" /\ JSON_stringify(last.value) = "<TypeError>") =>
       last.ret = "TypeError"

\* C16: after a write of undefined through a facade (set or attribute
\* assignment) no value is stored: has(k) is false, k is not in keys() and
\* get(k, d) returns d.
C16_UndefinedIsAbsent ==
    (last.op \in {"set", "attrset"} /\ last.value = "undefined") =>
       /\ ~WebStorage_has(last.f, last.key)
       /\ \A j \in 1..Len(WebStorage_keys(last.f).keys) :
             WebStorage_keys(last.f).keys[j] # last.key
       /\ \A defaultValue \in FaultDefaults :
             WebStorage_get(last.f, last.key, defaultValue) = defaultValue

----------------------------------------------------------------------------
(* The proxy: attribute reads and existence checks, names of declared      *)
(* members used as keys, and iteration                                      *)

\* The member names the callers of this specification use: the method get
\* and the field currentNamespace.
GetName == <<"g","e","t">>
CurrentNamespaceName == <<"c","u","r","r","e","n","t","N","a","m","e","s","p","a","c","e">>

\* Facades, attribute names, logical keys and values of the callers in this
\* specification; "k" is no member of the facade.
ProxyFacades == {1, 2}
ProxyNames == {<<"k">>}
MemberNames == {GetName, CurrentNamespaceName}
ProxyKeys == {<<"k">>, GetName}
ProxyValues == {"num:1", "NaN"}
MemberData == {"str:x"}

\* Physical keys written directly to the backing store, with a text that is
\* not JSON: "get" and "a/get".
ProxyRawKeys == {GetName, <<"a", "/">> \o GetName}

\* A namespace string | null as a JavaScript value.
NamespaceValue(namespace) ==
    CASE namespace = Null -> "null"
      [] namespace = <<"a">> -> "str:a"
      [] namespace = <<"b">> -> "str:b"
      [] OTHER -> "str:x"

\* A number as a JavaScript value, TypeError where the getter raised.
NumberValue(n) ==
    IF n < 0
    THEN "TypeError"
    ELSE IF n < 4 THEN <<"num:0", "num:1", "num:2", "num:3">>[n + 1] ELSE "num:4+"

\* target[key] for (key in target): the own property assigned over the
\* member, or else the member itself; a method is a function.
TargetGet(f, name) ==
    IF \E p \in own[f] : p.name = name
    THEN (CHOOSE p \in own[f] : p.name = name).data
    ELSE CASE name = CurrentNamespaceName -> NamespaceValue(currentNamespace[f])
           [] name = <<"n","a","m","e","s","p","a","c","e">> ->
                 NamespaceValue(WebStorage_namespace(f))
           [] name = <<"l","e","n","g","t","h">> -> NumberValue(WebStorage_length(f))
           [] name = <<"s","t","o","r","a","g","e">> -> "object"
           [] OTHER -> "function"

\* An attribute read that looks the name up without the namespace prefix.
AttrGet_NoNamespace(f, key) ==
    IF ~InTarget(f, key)
    THEN JSON_parse(MemoryStorage_getItem(internalItems, key))
    ELSE TargetGet(f, ToString(key))

\* facade[key]: the get trap of createProxy, for a string key
AttrGet(f, key) ==
    IF ~InTarget(f, key)
    THEN JSON_parse(MemoryStorage_getItem(internalItems, WebStorage_keyWithNamespace(f, key)))
    ELSE TargetGet(f, ToString(key))

\* key in facade: the has trap of createProxy
AttrHas(f, key) ==
    IF ~InTarget(f, key)
    THEN MemoryStorage_getItem(internalItems, WebStorage_keyWithNamespace(f, key)) # NullText
    ELSE TRUE

\* facade.method(...) can be called: the get trap returns target[method],
\* and the method reads storage, keyWithNamespace and hasNamespace through
\* the proxy; none may have been replaced by a value that is no function.
Callable(f, method) ==
    \A name \in {method, <<"s","t","o","r","a","g","e">>,
                 <<"k","e","y","W","i","t","h","N","a","m","e","s","p","a","c","e">>,
                 <<"h","a","s","N","a","m","e","s","p","a","c","e">>} :
       ~(\E p \in own[f] : p.name = name)

\* [Symbol.iterator]() and [Symbol.asyncIterator](), run to the end with no
\* step of another caller in between: the pairs [this[key], key]; a step
\* whose parse raises ends the iteration and stands as a last pair with the
\* value "SyntaxError".
RECURSIVE IteratorFrom(_, _)
IteratorFrom(f, keys) ==
    IF keys = <<>>
    THEN <<>>
    ELSE IF AttrGet(f, Head(keys)) = "SyntaxError"
    THEN <<[value |-> "SyntaxError", key |-> Head(keys)]>>
    ELSE <<[value |-> AttrGet(f, Head(keys)), key |-> Head(keys)]>>
            \o IteratorFrom(f, Tail(keys))

\* for (const pair of facade): [Symbol.iterator]()
WebStorage_iterator(f) ==
    [fault |-> WebStorage_getStorageKeys(f).fault,
     pairs |-> IteratorFrom(f, WebStorage_getStorageKeys(f).keys)]

\* The for loop of [Symbol.asyncIterator](), run to the end in the same way
RECURSIVE AsyncIteratorFrom(_, _)
AsyncIteratorFrom(f, keys) ==
    IF keys = <<>>
    THEN <<>>
    ELSE IF AttrGet(f, Head(keys)) = "SyntaxError"
    THEN <<[value |-> "SyntaxError", key |-> Head(keys)]>>
    ELSE <<[value |-> AttrGet(f, Head(keys)), key |-> Head(keys)]>>
            \o AsyncIteratorFrom(f, Tail(keys))

\* An asynchronous iteration that reads each value with get(key).
RECURSIVE AsyncIteratorFrom_ViaGet(_, _)
AsyncIteratorFrom_ViaGet(f, keys) ==
    IF keys = <<>>
    THEN <<>>
    ELSE IF WebStorage_get(f, Head(keys), "undefined") = "SyntaxError"
    THEN <<[value |-> "SyntaxError", key |-> Head(keys)]>>
    ELSE <<[value |-> WebStorage_get(f, Head(keys), "undefined"), key |-> Head(keys)]>>
            \o AsyncIteratorFrom_ViaGet(f, Tail(keys))

WebStorage_asyncIterator_ViaGet(f) ==
    [fault |-> WebStorage_getStorageKeys(f).fault,
     pairs |-> AsyncIteratorFrom_ViaGet(f, WebStorage_getStorageKeys(f).keys)]

\* for await (const pair of facade): [Symbol.asyncIterator]()
WebStorage_asyncIterator(f) ==
    [fault |-> WebStorage_getStorageKeys(f).fault,
     pairs |-> AsyncIteratorFrom(f, WebStorage_getStorageKeys(f).keys)]

NextProxy ==
    \/ \E f \in ProxyFacades, key \in ProxyKeys, value \in ProxyValues : Set(f, key, value)
    \/ \E f \in ProxyFacades, key \in ProxyKeys : Delete(f, key)
    \/ \E f \in ProxyFacades, key \in ProxyNames, data \in ProxyValues : AttrSet(f, key, data)
    \/ \E f \in ProxyFacades, key \in MemberNames, data \in MemberData : AttrSet(f, key, data)
    \/ \E f \in ProxyFacades, key \in ProxyNames \cup MemberNames : AttrDelete(f, key)
    \/ \E key \in ProxyRawKeys, text \in CorruptTexts : RawSetItem(key, text)

SpecProxy == Init /\ [][NextProxy]_vars

\* The text stored at the encoded key of `key` is not valid JSON.
CorruptAt(f, key) ==
    /\ MapHas(internalItems, WebStorage_keyWithNamespace(f, key))
    /\ JSON_parse(MemoryStorage_getItem(internalItems,
                                        WebStorage_keyWithNamespace(f, key))) = "SyntaxError"

\* C15: where the text stored at a facade's encoded key is not valid for the
\* codec, get(k, d) raises for every d, and every iteration step over k
\* raises: neither returns d or another value.
C15_CorruptTextRaises ==
    \A f \in ProxyFacades, key \in ProxyKeys :
       CorruptAt(f, key) =>
          /\ \A defaultValue \in Defaults :
                WebStorage_get(f, key, defaultValue) = "SyntaxError"
          /\ \A j \in 1..Len(WebStorage_iterator(f).pairs) :
                WebStorage_iterator(f).pairs[j].key = key =>
                   WebStorage_iterator(f).pairs[j].value = "SyntaxError"

\* The five equivalences of C17 for the values in `values`.
AttributePathIsExplicitPath(values) ==
    /\ (/\ last.op = "attrset" /\ last.f \in ProxyFacades
        /\ last.key \in ProxyNames /\ last.value \in values) =>
          WebStorage_get(last.f, last.key, "undefined") = last.value
    /\ (/\ last.op = "set" /\ last.f \in ProxyFacades /\ last.ret = "true"
        /\ last.key \in ProxyNames /\ last.value \in values) =>
          AttrGet(last.f, last.key) = last.value
    /\ \A f \in ProxyFacades, n \in ProxyNames :
          /\ AttrHas(f, n) = WebStorage_has(f, n)
          /\ ~WebStorage_has(f, n) => AttrGet(f, n) = "null"
    /\ (/\ last.op = "attrdelete" /\ last.f \in ProxyFacades
        /\ last.key \in ProxyNames) =>
          ~WebStorage_has(last.f, last.key)

\* C17 as stated: for a name n that is no declared member, after the
\* attribute assignment n := v get(n) returns v, after set(n, v) the
\* attribute read of n returns v, for every value v; the attribute existence
\* check equals has(n); after the attribute deletion has(n) is false; the
\* attribute read of an absent n returns null.
C17_Original == AttributePathIsExplicitPath(ProxyValues)

\* C17: the same, for every value v that JSON text represents without loss.
C17_AttributePathIsExplicitPath ==
    AttributePathIsExplicitPath({v \in ProxyValues : Lossless(v)})

\* The named facade assigned 1 to the attribute k and get('k') returns 1.
C17_Witness ==
    /\ last.op = "attrset"
    /\ last.f = 2
    /\ last.key = <<"k">>
    /\ last.value = "num:1"
    /\ WebStorage_get(2, <<"k">>, "undefined") = "num:1"
    /\ AttrHas(2, <<"k">>)

\* C18: for a declared member m, attribute assignment and deletion of m leave
\* the backing store as it was, the existence check on m is true, also after
\* the deletion, and get, set, has and delete stay callable on every facade.
C18_MembersShadowStore ==
    [][\A f \in ProxyFacades, m \in MemberNames :
          (last'.op \in {"attrset", "attrdelete"} /\ last'.f = f /\ last'.key = m) =>
             /\ internalItems' = internalItems
             /\ AttrHas(f, m)'
             /\ \A method \in {GetName, <<"s","e","t">>, <<"h","a","s">>,
                               <<"d","e","l","e","t","e">>} : Callable(f, method)'
      ]_vars

\* C19: namespace returns the value bound at construction, in every state.
C19_NamespaceImmutable ==
    \A f \in Facades : WebStorage_namespace(f) = Constructor(NamespaceArg[f])

\* C20: the set of pairs an iteration produces is the set of (get(k), k) for
\* the keys k of keys() at the same instant.
C20_IterationIsGetOverKeys ==
    \A f \in ProxyFacades :
       ~WebStorage_iterator(f).fault =>
          { <<WebStorage_iterator(f).pairs[j].value, WebStorage_iterator(f).pairs[j].key>> :
               j \in 1..Len(WebStorage_iterator(f).pairs) }
          = { <<WebStorage_get(f, WebStorage_keys(f).keys[j], "undefined"),
                WebStorage_keys(f).keys[j]>> :
               j \in 1..Len(WebStorage_keys(f).keys) }

----------------------------------------------------------------------------
(* Iteration step by step, with writes of other callers between the steps  *)

\* Facades, keys and values of the callers in this specification.
IterFacades == {1, 2}
IterKeys == {<<>>, <<"k">>}
IterValues == {"num:1"}

\* The generator body from where it is suspended to its next yield: the end
\* of the for loop, or the pair [this[key], key] of the next key of the
\* array `keys`; a parse that raises ends the generator.
Resume(it) ==
    IF it.pos = Len(it.keys)
    THEN [it EXCEPT !.state = "done"]
    ELSE IF AttrGet(it.f, it.keys[it.pos + 1]) = "SyntaxError"
    THEN [it EXCEPT !.state = "raised"]
    ELSE [it EXCEPT !.pos = @ + 1,
                    !.produced = Append(@, [value |-> AttrGet(it.f, it.keys[it.pos + 1]),
                                            key |-> it.keys[it.pos + 1]])]

\* The first next() of a new iteration of facade f: the generator reads
\* getStorageKeys() into `keys` and runs to its first yield. `visible` keeps
\* what keys() returns at this moment.
IterBegin(f) ==
    /\ iteration.state # "suspended"
    /\ iteration' =
         IF WebStorage_getStorageKeys(f).fault
         THEN [NoIteration EXCEPT !.f = f, !.state = "raised"]
         ELSE Resume([f |-> f, state |-> "suspended",
                      keys |-> WebStorage_getStorageKeys(f).keys,
                      visible |-> WebStorage_keys(f).keys,
                      pos |-> 0, produced |-> <<>>])
    /\ last' = Op("next", f, <<>>, "undefined", iteration'.state, FALSE)
    /\ UNCHANGED <<internalItems, currentNamespace, own>>

\* A next() that reads the key list from the live store at every step.
IterNext_Live(f) ==
    /\ iteration.state = "suspended"
    /\ iteration.f = f
    /\ ~WebStorage_getStorageKeys(f).fault
    /\ iteration' =
         IF iteration.pos < Len(WebStorage_getStorageKeys(f).keys)
         THEN Resume([iteration EXCEPT !.keys = WebStorage_getStorageKeys(f).keys])
         ELSE [iteration EXCEPT !.state = "done"]
    /\ last' = Op("next", f, <<>>, "undefined", iteration'.state, FALSE)
    /\ UNCHANGED <<internalItems, currentNamespace, own>>

\* A later next() of the iteration in progress.
IterNext(f) ==
    /\ iteration.state = "suspended"
    /\ iteration.f = f
    /\ iteration' = Resume(iteration)
    /\ last' = Op("next", f, <<>>, "undefined", iteration'.state, FALSE)
    /\ UNCHANGED <<internalItems, currentNamespace, own>>

NextIteration ==
    \/ \E f \in IterFacades : IterBegin(f)
    \/ \E f \in IterFacades : IterNext(f)
    \/ \E f \in IterFacades, key \in IterKeys, value \in IterValues : Set(f, key, value)
    \/ \E f \in IterFacades, key \in IterKeys : Delete(f, key)
    \/ \E f \in IterFacades : Clear(f)
    \/ \E key \in CorruptKeys, text \in CorruptTexts : RawSetItem(key, text)

SpecIteration == Init /\ [][NextIteration]_vars

\* The keys of the pairs an iteration has produced, in order.
ProducedKeys(it) == [j \in 1..Len(it.produced) |-> it.produced[j].key]

\* At every step of an iteration: its first step takes the keys visible to
\* the facade in the live store, later steps keep them whatever was written
\* in between, and the keys produced so far are the first of them, in order
\* and once each.
SnapshotAtStep(f) ==
    /\ iteration.state # "suspended" => iteration'.visible = WebStorage_keys(f).keys
    /\ iteration.state = "suspended" => iteration'.visible = iteration.visible
    /\ Len(iteration'.produced) <= Len(iteration'.visible)
    /\ \A j \in 1..Len(iteration'.produced) :
          ProducedKeys(iteration')[j] = iteration'.visible[j]

\* C21 as stated: every iteration ends after as many steps as keys were
\* visible when it began, having produced exactly those keys.
C21_Original ==
    [][\A f \in IterFacades :
          (last'.op = "next" /\ last'.f = f) =>
             /\ SnapshotAtStep(f)
             /\ iteration'.state \in {"done", "raised"} =>
                   Len(iteration'.produced) = Len(iteration'.visible)
      ]_vars

\* C21: an iteration none of whose steps raises ends after as many steps as
\* keys were visible when it began, having produced exactly those keys; a
\* step that raises ends it there.
C21_IterationSnapshot ==
    [][\A f \in IterFacades :
          (last'.op = "next" /\ last'.f = f) =>
             /\ SnapshotAtStep(f)
             /\ iteration'.state = "done" =>
                   Len(iteration'.produced) = Len(iteration'.visible)
             /\ iteration'.state = "raised" =>
                   Len(iteration'.produced) <= Len(iteration'.visible)
      ]_vars

\* An iteration over two keys has ended although one of them was deleted
\* between its steps.
C21_Witness ==
    /\ iteration.state = "done"
    /\ Len(iteration.produced) = 2
    /\ \E j \in 1..2 : ~WebStorage_has(iteration.f, iteration.visible[j])

\* C22: run from the same state of the backing store, the blocking and the
\* asynchronous iteration of a facade produce the same sequence of pairs,
\* and one raises where the other does.
C22_AsyncIterationSame ==
    \A f \in ProxyFacades : WebStorage_asyncIterator(f) = WebStorage_iterator(f)

\* The named facade iterates over two entries, one of them under the name of
\* a member.
C22_Witness ==
    /\ Len(WebStorage_asyncIterator(2).pairs) = 2
    /\ \E j \in 1..2 : WebStorage_asyncIterator(2).pairs[j].key = GetName
    /\ \E j \in 1..2 : WebStorage_asyncIterator(2).pairs[j].value = "num:1"

----------------------------------------------------------------------------
(* Enumeration of attribute names, key(index)                              *)

\* Object.getOwnPropertyNames(facade): the ownKeys trap of createProxy
\* returns getStorageKeys(); the proxy raises a TypeError for a list with an
\* element that is no string, as it propagates the fault of the scan.
OwnKeys(f) ==
    IF WebStorage_getStorageKeys(f).fault
    THEN [fault |-> TRUE, keys |-> <<>>]
    ELSE IF \E j \in 1..Len(WebStorage_getStorageKeys(f).keys) :
               WebStorage_getStorageKeys(f).keys[j] \in {Null, Undefined}
    THEN [fault |-> TRUE, keys |-> <<>>]
    ELSE WebStorage_getStorageKeys(f)

\* C23: enumerating the own attribute names of a facade yields exactly the
\* list keys() returns for it.
C23_OwnKeysIsKeys ==
    \A f \in Facades : OwnKeys(f) = WebStorage_keys(f)

\* key(index): getStorageKeys()[index], undefined beyond the end of the
\* array; the fault of the scan stands as "<TypeError>"
WebStorage_key(f, index) ==
    IF WebStorage_getStorageKeys(f).fault
    THEN <<"<TypeError>">>
    ELSE IF 0 <= index /\ index < Len(WebStorage_getStorageKeys(f).keys)
    THEN WebStorage_getStorageKeys(f).keys[index + 1]
    ELSE Undefined

\* C24: key(index) is keys()[index] for 0 <= index < length, and null for
\* every index at or beyond length.
C24_KeyAtIndex ==
    \A f \in Facades, index \in 0..(MaxStore + 1) :
       ~WebStorage_keys(f).fault =>
          IF index < WebStorage_length(f)
          THEN WebStorage_key(f, index) = WebStorage_keys(f).keys[index + 1]
          ELSE WebStorage_key(f, index) = Null

----------------------------------------------------------------------------
(* MemoryStorage on its own: src/src/memory-storage.ts                     *)

\* Keys and texts of the callers in this specification: "", "k", "j" and
\* "key", the name of a method of the store.
KeyName == <<"k","e","y">>
MemKeys == {<<>>, <<"k">>, <<"j">>, KeyName}
MemTexts == {"a", "b"}

\* The objects passed to new MemoryStorage(items), as their entries in
\* property order.
Seeds ==
    { <<>>,
      <<[key |-> <<"k">>, value |-> "a"]>>,
      <<[key |-> <<"j">>, value |-> "b"], [key |-> <<"k">>, value |-> "a"]>> }

\* new Map(Object.entries(items)): the entries are copied, in order
RECURSIVE MemoryStorage_constructor(_)
MemoryStorage_constructor(entries) ==
    IF entries = <<>>
    THEN <<>>
    ELSE MapSet(MemoryStorage_constructor(SubSeq(entries, 1, Len(entries) - 1)),
                entries[Len(entries)].key, entries[Len(entries)].value)

\* The names for which (key in target) holds on a fresh MemoryStorage.
StoreMembers ==
    { <<"i","n","t","e","r","n","a","l","I","t","e","m","s">>,
      <<"c","o","n","s","t","r","u","c","t","o","r">>,
      <<"l","e","n","g","t","h">>, <<"i","t","e","m","s">>,
      <<"c","l","e","a","r">>, <<"h","a","s","I","t","e","m">>,
      <<"g","e","t","I","t","e","m">>, <<"k","e","y">>,
      <<"r","e","m","o","v","e","I","t","e","m">>, <<"s","e","t","I","t","e","m">>,
      <<"c","r","e","a","t","e","P","r","o","x","y">>,
      <<"t","o","S","t","r","i","n","g">>, <<"v","a","l","u","e","O","f">>,
      <<"h","a","s","O","w","n","P","r","o","p","e","r","t","y">> }

\* (key in target) on the store: a member, or an own property assigned since.
StoreInTarget(key) ==
    \/ key \in StoreMembers
    \/ \E p \in own[0] : p.name = key

\* target.hasOwnProperty(key): the field internalItems, or an own property
\* assigned since; the methods and getters live on the prototype.
StoreHasOwnProperty(key) ==
    \/ key = <<"i","n","t","e","r","n","a","l","I","t","e","m","s">>
    \/ \E p \in own[0] : p.name = key

InitMemory ==
    /\ internalItems \in {MemoryStorage_constructor(seed) : seed \in Seeds}
    /\ currentNamespace = [f \in Facades |-> Constructor(NamespaceArg[f])]
    /\ own = [f \in Facades \cup {0} |-> {}]
    /\ last = Op("new", 0, <<>>, "undefined", "void", FALSE)
    /\ iteration = NoIteration

\* storage[key] = data: the set trap of MemoryStorage.createProxy
StoreAttrSet(key, data) ==
    IF ~StoreInTarget(key)
    THEN /\ HasRoom(key)
         /\ internalItems' = MemoryStorage_setItem(internalItems, key, data)
         /\ last' = Op("storage.attrset", 0, key, data, "true", MapHas(internalItems, key))
         /\ UNCHANGED <<currentNamespace, own, iteration>>
    ELSE /\ internalItems' = internalItems
         /\ IF key \in {<<"l","e","n","g","t","h">>, <<"i","t","e","m","s">>}
            THEN /\ own' = own
                 /\ last' = Op("storage.attrset", 0, key, data, "TypeError",
                               MapHas(internalItems, key))
            ELSE /\ own' = [own EXCEPT ![0] = AssignOwn(own[0], key, data)]
                 /\ last' = Op("storage.attrset", 0, key, data, "true",
                               MapHas(internalItems, key))
         /\ UNCHANGED <<currentNamespace, iteration>>

\* delete storage[key]: the deleteProperty trap of MemoryStorage.createProxy
StoreAttrDelete(key) ==
    /\ internalItems' =
         IF ~StoreHasOwnProperty(key)
         THEN MemoryStorage_removeItem(internalItems, key)
         ELSE internalItems
    /\ last' = Op("storage.attrdelete", 0, key, "undefined", "true",
                  MapHas(internalItems, key))
    /\ UNCHANGED <<currentNamespace, own, iteration>>

\* storage.items.set(key, text): the caller writes to the Map that the
\* getter items returns
ItemsSet(key, text) ==
    /\ HasRoom(key)
    /\ internalItems' = MapSet(internalItems, key, text)
    /\ last' = Op("items.set", 0, key, text, "void", MapHas(internalItems, key))
    /\ UNCHANGED <<currentNamespace, own, iteration>>

\* items[key] = text on the object that was passed to the constructor: the
\* store kept the Map built from its entries, not the object
SeedAssign(key, text) ==
    /\ internalItems' = internalItems
    /\ last' = Op("seed.assign", 0, key, text, "void", MapHas(internalItems, key))
    /\ UNCHANGED <<currentNamespace, own, iteration>>

NextMemory ==
    \/ \E key \in MemKeys, text \in MemTexts : RawSetItem(key, text)
    \/ \E key \in MemKeys : RawRemoveItem(key)
    \/ RawClear
    \/ \E key \in MemKeys, data \in MemTexts : StoreAttrSet(key, data)
    \/ \E key \in MemKeys : StoreAttrDelete(key)
    \/ \E key \in MemKeys, text \in MemTexts : ItemsSet(key, text)
    \/ \E key \in MemKeys, text \in MemTexts : SeedAssign(key, text)

SpecMemory == InitMemory /\ [][NextMemory]_vars

\* C25: a setItem(k, v) makes getItem(k) return v, a removeItem(k) or a
\* clear() makes it return null, and neither setItem nor removeItem changes
\* what getItem returns for another key, so getItem(k) is the value of the
\* latest setItem(k, v) not followed by removeItem(k) or clear(); a second
\* removeItem(k) changes nothing; length is the number of keys for which
\* getItem is not null.
C25_MemoryStorageMap ==
    [][(last'.op \in {"setItem", "removeItem", "storage.clear"}) =>
          /\ \A key \in MemKeys :
                MemoryStorage_getItem(internalItems', key) =
                   CASE last'.op = "storage.clear" -> NullText
                     [] last'.op = "setItem" /\ last'.key = key -> last'.value
                     [] last'.op = "removeItem" /\ last'.key = key -> NullText
                     [] OTHER -> MemoryStorage_getItem(internalItems, key)
          /\ last'.op = "removeItem" =>
                MemoryStorage_removeItem(internalItems', last'.key) = internalItems'
          /\ MemoryStorage_length(internalItems') =
                Cardinality({key \in MemKeys :
                               MemoryStorage_getItem(internalItems', key) # NullText})
      ]_vars

\* setItem replaced the value of a key the store already had.
C25_Witness ==
    /\ last.op = "setItem"
    /\ last.had
    /\ last.value = "b"
    /\ MemoryStorage_getItem(internalItems, last.key) = "b"
    /\ MemoryStorage_length(internalItems) = 2

\* C26: key(index) returns the key at position index in insertion order for
\* 0 <= index < length, and null for every index at or beyond length.
C26_MemoryStorageKey ==
    \A index \in 0..(MaxStore + 1) :
       IF index < MemoryStorage_length(internalItems)
       THEN MemoryStorage_key(internalItems, index) = MapKeys(internalItems)[index + 1]
       ELSE MemoryStorage_key(internalItems, index) = Null

\* C29: a write to the object that seeded the store, or to the Map obtained
\* from the accessor items, changes nothing of what getItem, key and length
\* report.
C29_NoAliasing ==
    [][(last'.op \in {"seed.assign", "items.set"}) =>
          /\ \A key \in MemKeys :
                MemoryStorage_getItem(internalItems', key) =
                   MemoryStorage_getItem(internalItems, key)
          /\ \A index \in 0..MaxStore :
                MemoryStorage_key(internalItems', index) =
                   MemoryStorage_key(internalItems, index)
          /\ MemoryStorage_length(internalItems') = MemoryStorage_length(internalItems)
      ]_vars

----------------------------------------------------------------------------
(* Attribute assignment: a rejected write, and the members of the facade   *)

\* C27: a write through a facade, set(k, v) or the attribute assignment of a
\* value that can be serialized, raises nothing, also where the backing store
\* rejects it.
C27_NoCapacityFaultRaised ==
    (/\ last.op \in {"set", "attrset"}
     /\ ~InTarget(last.f, last.key)
     /\ JSON_stringify(last.value) # "<TypeError>") =>
        last.ret \in {"true", "false"}

\* The members the callers of this specification assign, the method get and
\* the getter length, and the values they assign: a string and the falsy
\* false, 0, "" and null.
AssignedMembers == {GetName, <<"l","e","n","g","t","h">>}
AssignedValues == {"str:x", "false", "num:0", "str:", "null"}

NextMembers ==
    \/ \E f \in ProxyFacades, key \in AssignedMembers, data \in AssignedValues :
          AttrSet(f, key, data)
    \/ \E f \in ProxyFacades, key \in AssignedMembers : AttrDelete(f, key)
    \/ \E f \in ProxyFacades, key \in ProxyKeys, value \in IterValues : Set(f, key, value)
    \/ \E f \in ProxyFacades, key \in ProxyKeys : Delete(f, key)

SpecMembers == Init /\ [][NextMembers]_vars

\* C28: an attribute assignment to a declared member completes without
\* fault for every assigned value, a following attribute read of the name
\* returns that value, and the backing store is as it was.
C28_MemberAssignment ==
    [][\A f \in ProxyFacades, m \in AssignedMembers :
          (last'.op = "attrset" /\ last'.f = f /\ last'.key = m) =>
             /\ last'.ret = "true"
             /\ AttrGet(f, m)' = last'.value
             /\ internalItems' = internalItems
      ]_vars

\* Some key of keys() of facade f is `key`.
InKeys(f, key) ==
    /\ ~WebStorage_keys(f).fault
    /\ \E j \in 1..Len(WebStorage_keys(f).keys) : WebStorage_keys(f).keys[j] = key

\* C30: for every facade and key k, has(k) is true exactly when k is an
\* element of keys().
C30_HasIffInKeys ==
    \A f \in Facades, key \in Keys : WebStorage_has(f, key) <=> InKeys(f, key)

\* Keys and values of the callers that write between the steps of an
\* iteration in the specification below: "k" and the member name get, the
\* number 1 and the string "x".
LiveKeys == {<<"k">>, GetName}
LiveValues == {"num:1", "str:x"}

NextIterationLive ==
    \/ \E f \in IterFacades : IterBegin(f)
    \/ \E f \in IterFacades : IterNext(f)
    \/ \E f \in IterFacades, key \in LiveKeys, value \in LiveValues : Set(f, key, value)
    \/ \E f \in IterFacades, key \in LiveKeys : Delete(f, key)

SpecIterationLive == Init /\ [][NextIterationLive]_vars

\* C31: a step of an iteration in progress reads the value of its key from
\* the live store: for a key deleted since the iteration began the step
\* yields the pair (null, key), for a key the store has it yields the value
\* get(key) returns at that step, and in both cases the key is the next one
\* of the snapshot.
C31_ValueReadAtStep ==
    [][\A f \in IterFacades :
          (/\ last'.op = "next" /\ last'.f = f
           /\ iteration.state = "suspended"
           /\ iteration.pos < Len(iteration.visible)
           /\ WebStorage_get(f, iteration.visible[iteration.pos + 1], "undefined")
                 # "SyntaxError") =>
             iteration'.produced =
                Append(iteration.produced,
                       [value |-> IF WebStorage_has(f, iteration.visible[iteration.pos + 1])
                                  THEN WebStorage_get(f, iteration.visible[iteration.pos + 1],
                                                      "undefined")
                                  ELSE "null",
                        key |-> iteration.visible[iteration.pos + 1]])
      ]_vars

----------------------------------------------------------------------------
(* Attribute reads and existence checks on a MemoryStorage                 *)

\* target[key] for (key in target) on the store: the own property assigned
\* over the member, or else the member itself; a method is a function.
StoreTargetGet(name) ==
    IF \E p \in own[0] : p.name = name
    THEN (CHOOSE p \in own[0] : p.name = name).data
    ELSE CASE name = <<"l","e","n","g","t","h">> ->
                 NumberValue(MemoryStorage_length(internalItems))
           [] name \in {<<"i","t","e","m","s">>,
                        <<"i","n","t","e","r","n","a","l","I","t","e","m","s">>} -> "object"
           [] OTHER -> "function"

\* storage[key]: the get trap of MemoryStorage.createProxy
StoreAttrGet(key) ==
    IF ~StoreInTarget(key)
    THEN MemoryStorage_getItem(internalItems, key)
    ELSE StoreTargetGet(key)

\* key in storage: the has trap of MemoryStorage.createProxy
StoreAttrHas(key) ==
    IF ~StoreInTarget(key)
    THEN MemoryStorage_hasItem(internalItems, key)
    ELSE TRUE

\* C32: for a name that is a declared member of the MemoryStorage, the
\* attribute read returns the member and not the stored entry, the existence
\* check is true, and an attribute deletion leaves the stored entry of that
\* name in place.
C32_StoreMembersShadowed ==
    [][\A m \in MemKeys \cap StoreMembers :
          /\ StoreAttrGet(m)' = StoreTargetGet(m)'
          /\ StoreAttrHas(m)'
          /\ (last'.op = "storage.attrdelete" /\ last'.key = m) =>
                MemoryStorage_getItem(internalItems', m) =
                   MemoryStorage_getItem(internalItems, m)
      ]_vars

====
